---- MODULE Spec2Model ----
(***************************************************************************)
(* troccomcp: an MCP server exposing two tools of the TROCCO API.          *)
(*                                                                         *)
(* The model follows src/src/index.ts.  JavaScript values are tagged       *)
(* records, objects are functions from key names to values, JSON text is   *)
(* the document it denotes (object members whose value is undefined are    *)
(* dropped by JSON.stringify).  Every invocation of an async function is   *)
(* a little state machine: it runs synchronously up to its next `await     *)
(* fetch`, is suspended while the request is in flight, and is resumed     *)
(* with the response.                                                      *)
(***************************************************************************)
EXTENDS Integers, Sequences, FiniteSets, TLC

(***************************************************************************)
(* Bounds of the model.                                                    *)
(***************************************************************************)
MaxInv == 2     \* invocations the host delivers in one run
MaxPages == 2   \* requests one aggregation may issue inside the model
MaxItems == 1   \* items on one page

(***************************************************************************)
(* JavaScript values.                                                      *)
(***************************************************************************)
Undefined == [type |-> "undefined"]
Null == [type |-> "null"]
Str(s) == [type |-> "string", str |-> s]
Num(n) == [type |-> "number", num |-> n]
Bool(b) == [type |-> "boolean", bool |-> b]
Obj(f) == [type |-> "object", fields |-> f]
Arr(s) == [type |-> "array", elems |-> s]
EmptyObject == [k \in {} |-> Undefined]

IsObject(v) == v.type = "object"
IsString(v) == v.type = "string"
\* v == null / v != null of the source: loose equality with null
IsNullish(v) == v.type \in {"undefined", "null"}
\* ToBoolean of the language: what `x ? a : b`, `!x` and `x || y` test
Truthy(v) ==
  CASE v.type = "undefined" -> FALSE
    [] v.type = "null" -> FALSE
    [] v.type = "boolean" -> v.bool
    [] v.type = "number" -> v.num # 0
    [] v.type = "string" -> v.str # ""
    [] OTHER -> TRUE
\* o.k : a missing property reads as undefined
Get(o, k) == IF k \in DOMAIN o.fields THEN o.fields[k] ELSE Undefined
\* o?.k
OptGet(o, k) == IF IsNullish(o) THEN Undefined ELSE Get(o, k)
Keys(o) == DOMAIN o.fields
\* { ...a, ...b }
Spread(a, b) == [k \in DOMAIN a \cup DOMAIN b |-> IF k \in DOMAIN b THEN b[k] ELSE a[k]]

(***************************************************************************)
(* JSON.stringify and response.json().  A JSON text is modelled by the     *)
(* document it denotes: stringify drops the members of an object whose     *)
(* value is undefined, turns an undefined array element into null, and     *)
(* yields undefined (no text at all) for undefined.                        *)
(***************************************************************************)
RECURSIVE ToJSON(_)
ToJSON(v) ==
  CASE v.type = "object" ->
         Obj([k \in {m \in DOMAIN v.fields : v.fields[m] # Undefined} |-> ToJSON(v.fields[k])])
    [] v.type = "array" ->
         Arr([n \in 1..Len(v.elems) |->
                IF v.elems[n] = Undefined THEN Null ELSE ToJSON(v.elems[n])])
    [] OTHER -> v
JSONstringify(v) == IF v = Undefined THEN Undefined ELSE [type |-> "text", json |-> ToJSON(v)]
\* a response body that is not JSON text
NotJSON == [type |-> "text", raw |-> "<html>"]

(***************************************************************************)
(* Outcomes of a call: a returned value, a thrown error, or a suspension.  *)
(***************************************************************************)
Return(v) == [kind |-> "return", value |-> v]
Throw(e, d) == [kind |-> "throw", error |-> e, detail |-> d]
Pending == [kind |-> "pending"]

(***************************************************************************)
(* troccoRequest.  A URL is its path and its query parameters              *)
(* (`${url}?${nextParams}`); options are read only through .method and     *)
(* .body, so absent and undefined are the same thing there.                *)
(***************************************************************************)
Url(path, query) == [path |-> path, query |-> query]
Options(method, body) == [method |-> method, body |-> body]
NoOptions == Options(Undefined, Undefined)
Headers ==
  [Accept |-> "application/json", ContentType |-> "application/json",
   UserAgent |-> "troccomcp/0.1.0", Authorization |-> "Token TROCCO_API_KEY"]

\* the argument of fetch(): method defaults to GET, the body is serialized
\* when `options.body` is truthy
troccoRequestFetch(url, options) ==
  [url |-> url,
   method |-> IF Truthy(options.method) THEN options.method.str ELSE "GET",
   headers |-> Headers,
   body |-> IF Truthy(options.body) THEN JSONstringify(options.body) ELSE Undefined]

\* a check of the lower end of the range only
ResponseOk_From200(status) == 200 <= status
\* response.ok
ResponseOk(status) == 200 <= status /\ status <= 299

\* what troccoRequest does with the response of its fetch
troccoRequestResult(response) ==
  IF ~ResponseOk(response.status)
    THEN Throw("TROCCO API request failed", Num(response.status))
  ELSE IF response.body = NotJSON
    THEN Throw("SyntaxError", Undefined)
  ELSE Return(response.body)

(***************************************************************************)
(* The input schemas (zod).  parse yields the parsed data, in which the    *)
(* keys the schema does not name are stripped, or the list of issues.      *)
(***************************************************************************)
ConnectionTypes ==
  {"bigquery", "gcs", "google_spreadsheet", "snowflake", "mysql", "s3",
   "salesforce", "postgresql", "google_analytics4"}
DataWarehouseTypes == {"bigquery"}
QueryModes == {"insert"}
WriteDispositions == {"append", "truncate"}

ZodEnum(v, values) == IsString(v) /\ v.str \in values
ZodString(v) == IsString(v)
ZodNumber(v) == v.type = "number"
ZodBoolean(v) == v.type = "boolean"
Issue(bad, path) == IF bad THEN <<Str(path)>> ELSE <<>>
Parsed(issues, data) ==
  IF issues = <<>> THEN [success |-> TRUE, data |-> data, issues |-> Arr(<<>>)]
  ELSE [success |-> FALSE, data |-> Undefined, issues |-> Arr(issues)]
\* the keys of the shape that the input has
Strip(o, shape) == Obj([k \in shape \cap Keys(o) |-> Get(o, k)])

\* connectionType: z.string() in place of the enumeration
ListConnectionsInputSchema_AnyString(args) ==
  IF ~IsObject(args) THEN Parsed(<<Str("")>>, Undefined)
  ELSE Parsed(Issue(~ZodString(Get(args, "connectionType")), "connectionType"),
              Strip(args, {"connectionType"}))
ListConnectionsInputSchema(args) ==
  IF ~IsObject(args) THEN Parsed(<<Str("")>>, Undefined)
  ELSE Parsed(Issue(~ZodEnum(Get(args, "connectionType"), ConnectionTypes), "connectionType"),
              Strip(args, {"connectionType"}))

BigqueryOptionKeys ==
  {"bigqueryConnectionId", "queryMode", "query", "destinationDataset",
   "destinationTable", "writeDisposition"}
DatamartBigqueryOptionIssues(o) ==
  IF o = Undefined THEN <<>>
  ELSE IF ~IsObject(o) THEN <<Str("datamartBigqueryOption")>>
  ELSE Issue(~ZodNumber(Get(o, "bigqueryConnectionId")), "datamartBigqueryOption.bigqueryConnectionId")
    \o Issue(~ZodEnum(Get(o, "queryMode"), QueryModes), "datamartBigqueryOption.queryMode")
    \o Issue(~ZodString(Get(o, "query")), "datamartBigqueryOption.query")
    \o Issue(~ZodString(Get(o, "destinationDataset")), "datamartBigqueryOption.destinationDataset")
    \o Issue(~ZodString(Get(o, "destinationTable")), "datamartBigqueryOption.destinationTable")
    \o Issue(~ZodEnum(Get(o, "writeDisposition"), WriteDispositions), "datamartBigqueryOption.writeDisposition")

CreateDatamartDefinitionKeys ==
  {"name", "dataWarehouseType", "description", "isRunnableConcurrently",
   "datamartBigqueryOption"}
CreateDatamartDefinitionInputSchema(args) ==
  IF ~IsObject(args) THEN Parsed(<<Str("")>>, Undefined)
  ELSE
    LET name == Get(args, "name")
        description == Get(args, "description")
        option == Get(args, "datamartBigqueryOption")
        issues ==
          Issue(~(ZodString(name) /\ name.str # ""), "name")
          \o Issue(~ZodEnum(Get(args, "dataWarehouseType"), DataWarehouseTypes), "dataWarehouseType")
          \o Issue(~(description = Undefined \/ ZodString(description)), "description")
          \o Issue(~ZodBoolean(Get(args, "isRunnableConcurrently")), "isRunnableConcurrently")
          \o DatamartBigqueryOptionIssues(option)
        stripped == Strip(args, CreateDatamartDefinitionKeys)
    IN Parsed(issues,
              IF IsObject(option)
                THEN Obj([stripped.fields EXCEPT
                            !["datamartBigqueryOption"] = Strip(option, BigqueryOptionKeys)])
                ELSE stripped)

(***************************************************************************)
(* The tool operations: the parts that compute.                            *)
(***************************************************************************)
\* listConnections: the URL, and the projection of each connection
listConnectionsUrl(input) ==
  "https://trocco.io/api/connections/" \o Get(input, "connectionType").str
ProjectConnection(connection) ==
  Obj([id |-> Get(connection, "id"),
       name |-> Get(connection, "name"),
       description |-> Get(connection, "description")])
\* the connections as the remote API sent them
listConnectionsMap_Raw(connections) == connections
listConnectionsMap(connections) ==
  Arr([n \in 1..Len(connections.elems) |-> ProjectConnection(connections.elems[n])])

\* createDatamartDefinition: the request options, and the reshaped response
createDatamartDefinitionUrl == "https://trocco.io/api/datamart_definitions"
createDatamartDefinitionOptions(input) ==
  LET option == Get(input, "datamartBigqueryOption") IN
  Options(Str("POST"),
    Obj([name |-> Get(input, "name"),
         data_warehouse_type |-> Get(input, "dataWarehouseType"),
         description |-> Get(input, "description"),
         is_runnable_concurrently |-> Get(input, "isRunnableConcurrently"),
         datamart_bigquery_option |->
           Obj([bigquery_connection_id |-> OptGet(option, "bigqueryConnectionId"),
                query_mode |-> OptGet(option, "queryMode"),
                query |-> OptGet(option, "query"),
                destination_dataset |-> OptGet(option, "destinationDataset"),
                destination_table |-> OptGet(option, "destinationTable"),
                write_disposition |-> OptGet(option, "writeDisposition")])]))
createDatamartDefinitionMap(datamartDefinition) ==
  Obj([id |-> Get(datamartDefinition, "id"),
       name |-> Get(datamartDefinition, "name"),
       data_warehouse_type |-> Get(datamartDefinition, "data_warehouse_type"),
       description |-> Get(datamartDefinition, "description"),
       is_runnable_concurrently |-> Get(datamartDefinition, "is_runnable_concurrently"),
       datamart_bigquery_option |-> Get(datamartDefinition, "datamart_bigquery_option")])

(***************************************************************************)
(* withPagination: the query of the next request, and one turn of the      *)
(* do-while loop on the value troccoRequest returned.                      *)
(***************************************************************************)
PageLimit == "5"
\* a loop that never sends the cursor
nextParams_NoCursor(params, nextCursor) == Spread(params, [limit |-> PageLimit])
nextParams(params, nextCursor) ==
  Spread(params,
         IF IsNullish(nextCursor) THEN [limit |-> PageLimit]
         ELSE [limit |-> PageLimit, cursor |-> nextCursor.str])
withPaginationFetch(frame) ==
  troccoRequestFetch(Url(frame.url, nextParams(frame.params, frame.nextCursor)), frame.options)
\* items.push(...data.items) throws when data.items is not iterable
withPaginationPush(frame, data) ==
  IF Get(data, "items").type # "array" THEN Throw("TypeError", Str("data.items"))
  ELSE Return([frame EXCEPT !.items = frame.items \o Get(data, "items").elems,
                            !.nextCursor = Get(data, "next_cursor")])
\* a single request, never a second page
withPaginationAgain_Never(frame) == FALSE
\* a loop that also stops when nothing was collected
withPaginationAgain_NonEmpty(frame) == ~IsNullish(frame.nextCursor) /\ frame.items # <<>>
\* while (nextCursor != null)
withPaginationAgain(frame) == ~IsNullish(frame.nextCursor)
NewFrame(url, params, options) ==
  [url |-> url, params |-> params, options |-> options, items |-> <<>>, nextCursor |-> Null]
NoFrame == NewFrame("", EmptyObject, NoOptions)

(***************************************************************************)
(* The CallTool handler up to the operation it calls: the arguments check, *)
(* the switch on the tool name and the parse of the arguments.             *)
(***************************************************************************)
Call(fn, input) == [kind |-> "call", fn |-> fn, input |-> input]
\* a switch whose last case is taken for every other name
CallToolDispatch_NoDefault(params) ==
  IF ~Truthy(params.arguments) THEN Throw("Arguments are required", Undefined)
  ELSE IF params.name = "list_connections"
    THEN LET p == ListConnectionsInputSchema(params.arguments) IN
         IF p.success THEN Call("listConnections", p.data) ELSE Throw("ZodError", p.issues)
  ELSE LET p == CreateDatamartDefinitionInputSchema(params.arguments) IN
       IF p.success THEN Call("createDatamartDefinition", p.data)
       ELSE Throw("ZodError", p.issues)
CallToolDispatch(params) ==
  IF ~Truthy(params.arguments) THEN Throw("Arguments are required", Undefined)
  ELSE CASE params.name = "list_connections" ->
              LET p == ListConnectionsInputSchema(params.arguments) IN
              IF p.success THEN Call("listConnections", p.data) ELSE Throw("ZodError", p.issues)
         [] params.name = "create_datamart_definition" ->
              LET p == CreateDatamartDefinitionInputSchema(params.arguments) IN
              IF p.success THEN Call("createDatamartDefinition", p.data)
              ELSE Throw("ZodError", p.issues)
         [] OTHER -> Throw("Unknown tool name", Str(params.name))
\* the envelope of a successful result
ToolResult(value) ==
  Obj([content |-> Arr(<<Obj([type |-> Str("text"), text |-> JSONstringify(value)])>>)])

(***************************************************************************)
(* What the host and the remote API may send.                              *)
(***************************************************************************)
PlainConnection ==
  Obj([id |-> Str("1"), name |-> Str("warehouse"), description |-> Str("main")])
\* a record with fields the Connection type does not declare
ExtraConnection ==
  Obj([id |-> Str("2"), name |-> Str("lake"), description |-> Null,
       created_at |-> Num(1700000000), secret |-> Str("k")])
\* a record without a description
BareConnection == Obj([id |-> Str("3"), name |-> Str("bare")])
RawRecords == {PlainConnection, ExtraConnection, BareConnection}
ItemLists(n) == UNION {[1..k -> RawRecords] : k \in 0..n}

\* next_cursor of a page: null, absent, or a string (the empty string too)
Cursors == {Null, Undefined, Str("c1"), Str("")}
PageBody(items, cursor) ==
  Obj(IF cursor = Undefined THEN [items |-> Arr(items)]
      ELSE [items |-> Arr(items), next_cursor |-> cursor])
DatamartBody ==
  Obj([id |-> Num(7), name |-> Str("dm"), data_warehouse_type |-> Str("bigquery"),
       description |-> Str("d"), is_runnable_concurrently |-> Bool(FALSE),
       updated_at |-> Num(1700000000)])
ErrorBody == Obj([error |-> Str("failed")])
Response(status, body) == [status |-> status, body |-> body]
Pages == {PageBody(items, c) : items \in ItemLists(MaxItems), c \in Cursors}
Responses ==
  {Response(200, b) : b \in Pages}
  \cup {Response(201, DatamartBody), Response(200, ErrorBody), Response(200, NotJSON),
        Response(404, ErrorBody), Response(500, PageBody(<<PlainConnection>>, Str("c1")))}
\* the responses of the runs with several invocations
SampleResponses ==
  {Response(200, PageBody(<<PlainConnection>>, Str("c1"))),
   Response(200, PageBody(<<ExtraConnection>>, Null)),
   Response(201, DatamartBody),
   Response(500, ErrorBody)}

\* the responses of the runs under fairness
LiveResponses ==
  {Response(200, PageBody(<<PlainConnection>>, Str("c1"))),
   Response(200, PageBody(<<>>, Str("c1"))),
   Response(200, PageBody(<<ExtraConnection>>, Str(""))),
   Response(200, PageBody(<<PlainConnection>>, Null)),
   Response(200, PageBody(<<>>, Undefined)),
   Response(200, ErrorBody),
   Response(404, ErrorBody),
   Response(500, PageBody(<<PlainConnection>>, Str("c1")))}

\* request.params of a CallTool request: the arguments are absent or an object
CallToolParams(name, arguments) == [name |-> name, arguments |-> arguments]
ToolNames == {"list_connections", "create_datamart_definition", "delete_connection"}
ListArguments ==
  {Obj([connectionType |-> Str("bigquery")]),
   Obj([connectionType |-> Str("google_analytics4"), limit |-> Num(100)]),
   Obj([connectionType |-> Str("oracle")]),
   Obj([connectionType |-> Str("BigQuery")]),
   Obj([connectionType |-> Num(1)]),
   Obj(EmptyObject)}
FullOption ==
  Obj([bigqueryConnectionId |-> Num(3), queryMode |-> Str("insert"),
       query |-> Str("select 1"), destinationDataset |-> Str("ds"),
       destinationTable |-> Str("t"), writeDisposition |-> Str("truncate")])
OptionValues ==
  {Undefined, FullOption,
   Obj([k \in Keys(FullOption) \ {"query"} |-> Get(FullOption, k)]),
   Obj([FullOption.fields EXCEPT !["writeDisposition"] = Str("overwrite")])}
\* an object of the given members, without those that are undefined
Members(f) == Obj([k \in {m \in DOMAIN f : f[m] # Undefined} |-> f[k]])
CreateArguments ==
  {Members([name |-> n, dataWarehouseType |-> w, description |-> d,
            isRunnableConcurrently |-> c, datamartBigqueryOption |-> o]) :
     n \in {Undefined, Str(""), Str("dm")},
     w \in {Undefined, Str("bigquery"), Str("snowflake")},
     d \in {Undefined, Str("daily")},
     c \in {Undefined, Bool(TRUE), Bool(FALSE)},
     o \in OptionValues}
ArgumentValues == {Undefined} \cup ListArguments \cup CreateArguments
ToolCalls == {CallToolParams(n, a) : n \in ToolNames, a \in ArgumentValues}
SampleCalls ==
  {CallToolParams("list_connections", Obj([connectionType |-> Str("bigquery")])),
   CallToolParams("list_connections", Obj([connectionType |-> Str("oracle")])),
   CallToolParams("list_connections", Undefined),
   CallToolParams("create_datamart_definition",
     Obj([name |-> Str("dm"), dataWarehouseType |-> Str("bigquery"),
          isRunnableConcurrently |-> Bool(TRUE)])),
   CallToolParams("delete_connection", Obj(EmptyObject)),
   CallToolParams("delete_connection", Undefined)}

LiveCalls ==
  {CallToolParams("list_connections", a) : a \in ListArguments}
  \cup {c \in SampleCalls : c.name = "create_datamart_definition"}

\* the inputs of withPagination and troccoRequest called on their own
BaseParams ==
  {EmptyObject, [cursor |-> "c0"], [limit |-> "100"], [limit |-> "1", order |-> "desc"]}
Bodies ==
  {Undefined, Null, Bool(FALSE), Bool(TRUE), Num(0), Num(1), Str(""), Str("x"),
   Arr(<<>>), Obj(EmptyObject), Obj([name |-> Str("dm"), description |-> Undefined])}
Methods == {Undefined, Str("GET"), Str("POST"), Str("PUT"), Str("PATCH"), Str("DELETE")}
RequestOptions == {Options(m, b) : m \in Methods, b \in Bodies}

(***************************************************************************)
(* State.  Invocation i is one run of the CallTool handler (or, in the     *)
(* specifications of the helpers, one call of withPagination or            *)
(* troccoRequest).                                                         *)
(***************************************************************************)
VARIABLES
  pc,        \* "idle" (not started), "fetch" (awaiting fetch), "resume"
             \* (response received, continuation queued), "done"
  call,      \* what was called, with its arguments
  frame,     \* the locals of the suspended withPagination
  fetched,   \* the fetch() calls issued, in order
  received,  \* the responses received, in order
  outcome,   \* what the operation returned or threw
  reply      \* what the handler returned or threw to the host
vars == <<pc, call, frame, fetched, received, outcome, reply>>

Invocations == 1..MaxInv
NoCall == [entry |-> "none"]

Init ==
  /\ pc = [i \in Invocations |-> "idle"]
  /\ call = [i \in Invocations |-> NoCall]
  /\ frame = [i \in Invocations |-> NoFrame]
  /\ fetched = [i \in Invocations |-> <<>>]
  /\ received = [i \in Invocations |-> <<>>]
  /\ outcome = [i \in Invocations |-> Pending]
  /\ reply = [i \in Invocations |-> Pending]

\* a request sent twice
IssueFetch_Twice(log, init) == Append(Append(log, init), init)
\* await fetch(...): the request leaves, the caller is suspended
IssueFetch(log, init) == Append(log, init)
\* invocations are numbered in the order the host delivers them
Startable(i) == pc[i] = "idle" /\ (IF i = 1 THEN TRUE ELSE pc[i - 1] # "idle")
Last(s) == s[Len(s)]

\* what the handler hands to the host for what its operation returned or threw
HandlerReply(r) == IF r.kind = "return" THEN Return(ToolResult(r.value)) ELSE r

(***************************************************************************)
(* The CallTool handler, from the request to its first await.  Nothing     *)
(* in the program holds a request back while another one is suspended:     *)
(* the handler is an async function the server calls per request.          *)
(***************************************************************************)
CallTool(i, params) ==
  LET d == CallToolDispatch(params) IN
  /\ Startable(i)
  /\ call' = [call EXCEPT ![i] = [entry |-> "CallTool", params |-> params]]
  /\ received' = received
  /\ outcome' = outcome
  /\ IF d.kind = "throw"
       THEN /\ pc' = [pc EXCEPT ![i] = "done"]
            /\ reply' = [reply EXCEPT ![i] = d]
            /\ UNCHANGED <<frame, fetched>>
     ELSE IF d.fn = "listConnections"
       THEN LET f == NewFrame(listConnectionsUrl(d.input), EmptyObject, NoOptions) IN
            /\ pc' = [pc EXCEPT ![i] = "fetch"]
            /\ frame' = [frame EXCEPT ![i] = f]
            /\ fetched' = [fetched EXCEPT ![i] = IssueFetch(@, withPaginationFetch(f))]
            /\ reply' = reply
     ELSE /\ pc' = [pc EXCEPT ![i] = "fetch"]
          /\ fetched' = [fetched EXCEPT ![i] =
               IssueFetch(@, troccoRequestFetch(Url(createDatamartDefinitionUrl, EmptyObject),
                                                createDatamartDefinitionOptions(d.input)))]
          /\ UNCHANGED <<frame, reply>>

\* withPagination called on its own
CallWithPagination(i, url, params, options) ==
  LET f == NewFrame(url, params, options) IN
  /\ Startable(i)
  /\ call' = [call EXCEPT ![i] = [entry |-> "withPagination", url |-> url,
                                  params |-> params, options |-> options]]
  /\ pc' = [pc EXCEPT ![i] = "fetch"]
  /\ frame' = [frame EXCEPT ![i] = f]
  /\ fetched' = [fetched EXCEPT ![i] = IssueFetch(@, withPaginationFetch(f))]
  /\ UNCHANGED <<received, outcome, reply>>

\* troccoRequest called on its own
CallTroccoRequest(i, url, options) ==
  /\ Startable(i)
  /\ call' = [call EXCEPT ![i] = [entry |-> "troccoRequest", url |-> url, options |-> options]]
  /\ pc' = [pc EXCEPT ![i] = "fetch"]
  /\ fetched' = [fetched EXCEPT ![i] = IssueFetch(@, troccoRequestFetch(Url(url, EmptyObject), options))]
  /\ UNCHANGED <<frame, received, outcome, reply>>

\* the remote API answers the request in flight
Respond(i, response) ==
  /\ pc[i] = "fetch"
  /\ received' = [received EXCEPT ![i] = Append(@, response)]
  /\ pc' = [pc EXCEPT ![i] = "resume"]
  /\ UNCHANGED <<call, frame, fetched, outcome, reply>>

IsCallOf(i, fn) ==
  /\ call[i].entry = "CallTool"
  /\ CallToolDispatch(call[i].params).kind = "call"
  /\ CallToolDispatch(call[i].params).fn = fn
Paginates(i) == call[i].entry = "withPagination" \/ IsCallOf(i, "listConnections")

\* the operation of invocation i ends with r (a return or a throw)
Finish(i, r) ==
  /\ pc' = [pc EXCEPT ![i] = "done"]
  /\ outcome' = [outcome EXCEPT ![i] = r]
  /\ reply' = [reply EXCEPT ![i] = IF call[i].entry = "CallTool" THEN HandlerReply(r) ELSE @]
  /\ fetched' = fetched

\* the continuation of the suspended call runs on the response
Resume(i) ==
  LET r == troccoRequestResult(Last(received[i])) IN
  /\ pc[i] = "resume"
  /\ UNCHANGED <<call, received>>
  /\ IF Paginates(i)
       THEN IF r.kind = "throw" THEN Finish(i, r) /\ frame' = frame
            ELSE LET p == withPaginationPush(frame[i], r.value) IN
                 IF p.kind = "throw" THEN Finish(i, p) /\ frame' = frame
                 ELSE /\ frame' = [frame EXCEPT ![i] = p.value]
                      /\ IF withPaginationAgain(p.value)
                           THEN /\ Len(fetched[i]) < MaxPages
                                /\ pc' = [pc EXCEPT ![i] = "fetch"]
                                /\ fetched' = [fetched EXCEPT ![i] =
                                                 IssueFetch(@, withPaginationFetch(p.value))]
                                /\ UNCHANGED <<outcome, reply>>
                         ELSE Finish(i, IF call[i].entry = "CallTool"
                                          THEN Return(listConnectionsMap(Arr(p.value.items)))
                                          ELSE Return(Arr(p.value.items)))
     ELSE /\ frame' = frame
          /\ Finish(i, IF r.kind = "return" /\ IsCallOf(i, "createDatamartDefinition")
                         THEN Return(createDatamartDefinitionMap(r.value))
                         ELSE r)

(***************************************************************************)
(* Specifications.                                                         *)
(***************************************************************************)
\* the server: the host delivers CallTool requests, also while earlier ones are suspended
Next ==
  \E i \in Invocations :
    \/ \E params \in SampleCalls : CallTool(i, params)
    \/ \E response \in SampleResponses : Respond(i, response)
    \/ Resume(i)
Spec == Init /\ [][Next]_vars

\* one invocation of the handler, over all the arguments and responses
ToolNext ==
  \/ \E params \in ToolCalls : CallTool(1, params)
  \/ \E response \in Responses : Respond(1, response)
  \/ Resume(1)
ToolSpec == Init /\ [][ToolNext]_vars

\* one invocation again, with the scheduling the runtime gives: a request in
\* flight is answered (the premise of the liveness claims), and a continuation
\* whose response has arrived is run by the event loop
LiveNext ==
  \/ \E params \in LiveCalls : CallTool(1, params)
  \/ \E response \in LiveResponses : Respond(1, response)
  \/ Resume(1)
LiveSpec ==
  /\ Init /\ [][LiveNext]_vars
  /\ WF_vars(\E response \in LiveResponses : Respond(1, response))
  /\ WF_vars(Resume(1))

\* one call of withPagination
PaginationNext ==
  \/ \E params \in BaseParams, options \in {NoOptions, Options(Str("GET"), Undefined)} :
       CallWithPagination(1, "https://trocco.io/api/connections/bigquery", params, options)
  \/ \E response \in Responses : Respond(1, response)
  \/ Resume(1)
PaginationSpec == Init /\ [][PaginationNext]_vars

\* one call of troccoRequest
RequestNext ==
  \/ \E options \in RequestOptions :
       CallTroccoRequest(1, createDatamartDefinitionUrl, options)
  \/ \E response \in Responses : Respond(1, response)
  \/ Resume(1)
RequestSpec == Init /\ [][RequestNext]_vars

(***************************************************************************)
(* Vocabulary of the properties.  It is stated on the requests and the     *)
(* responses alone, not through the operators of the program.              *)
(***************************************************************************)
Success(r) == r.status \in 200..299
\* a successful response that carries a page: an object with an items array
IsPage(r) ==
  /\ Success(r)
  /\ r.body # NotJSON
  /\ r.body.type = "object"
  /\ "items" \in DOMAIN r.body.fields
  /\ r.body.fields["items"].type = "array"
ItemsOf(r) == r.body.fields["items"].elems
\* the page carries a cursor: next_cursor is there and is not null
HasCursor(r) ==
  /\ "next_cursor" \in DOMAIN r.body.fields
  /\ r.body.fields["next_cursor"].type = "string"
CursorOf(r) == r.body.fields["next_cursor"].str
AllPages(rs) == \A k \in 1..Len(rs) : IsPage(rs[k])
RECURSIVE Concatenation(_)
Concatenation(rs) ==
  IF Len(rs) = 0 THEN <<>> ELSE ItemsOf(Head(rs)) \o Concatenation(Tail(rs))
QueryOf(i, k) == fetched[i][k].url.query
\* the response k of invocation i has been handled by the continuation
Handled(i, k) == k < Len(received[i]) \/ pc[i] \in {"fetch", "done"}
IsList(i) == call[i].entry = "CallTool" /\ call[i].params.name = "list_connections"
IsCreate(i) == call[i].entry = "CallTool" /\ call[i].params.name = "create_datamart_definition"
InFlight(i) == Len(fetched[i]) - Len(received[i])

(***************************************************************************)
(* C1.  withPagination returns the concatenation of the pages, in page     *)
(* order, with one request per page; request k+1 carries the cursor of     *)
(* page k.                                                                 *)
(***************************************************************************)
\* the requests after the first carry the cursor of the page before, every
\* request carries limit=5 and the other base parameters
C1_LaterRequests(i) ==
  \A k \in 1..Len(fetched[i]) :
    /\ QueryOf(i, k)["limit"] = "5"
    /\ \A key \in DOMAIN call[i].params \ {"limit", "cursor"} :
         key \in DOMAIN QueryOf(i, k) /\ QueryOf(i, k)[key] = call[i].params[key]
    /\ k > 1 => /\ IsPage(received[i][k - 1]) /\ HasCursor(received[i][k - 1])
                /\ "cursor" \in DOMAIN QueryOf(i, k)
                /\ QueryOf(i, k)["cursor"] = CursorOf(received[i][k - 1])
\* N pages, the last without a cursor: N requests, and the items in page order
C1_Result(i) ==
  (pc[i] = "done" /\ AllPages(received[i])) =>
    /\ Len(fetched[i]) = Len(received[i])
    /\ ~HasCursor(Last(received[i]))
    /\ outcome[i] = Return(Arr(Concatenation(received[i])))

\* C1 as claimed: for any base parameters the first request carries no cursor
C1_AnyBaseParams ==
  \A i \in Invocations : call[i].entry = "withPagination" =>
    /\ "cursor" \notin DOMAIN QueryOf(i, 1)
    /\ C1_LaterRequests(i)
    /\ C1_Result(i)

\* C1 amended: the first request carries no cursor parameter unless the base
\* parameters have one, and then it carries that one; the rest as claimed
C1_Pagination ==
  \A i \in Invocations : call[i].entry = "withPagination" =>
    /\ IF "cursor" \in DOMAIN call[i].params
         THEN /\ "cursor" \in DOMAIN QueryOf(i, 1)
              /\ QueryOf(i, 1)["cursor"] = call[i].params["cursor"]
         ELSE "cursor" \notin DOMAIN QueryOf(i, 1)
    /\ C1_LaterRequests(i)
    /\ C1_Result(i)

\* two pages with items, the aggregation has returned
C1_Witness ==
  \E i \in Invocations :
    /\ call[i].entry = "withPagination" /\ pc[i] = "done"
    /\ call[i].params = EmptyObject
    /\ Len(received[i]) = 2 /\ AllPages(received[i])
    /\ \A k \in 1..Len(received[i]) : ItemsOf(received[i][k]) # <<>>
    /\ ItemsOf(received[i][1]) # ItemsOf(received[i][2])

(***************************************************************************)
(* C2.  The loop of withPagination stops after a page exactly when the     *)
(* page has no cursor (null or absent); an empty page with a cursor does   *)
(* not stop it; every call issues at least one request.                    *)
(***************************************************************************)
\* C2: after a handled page the loop has stopped if and only if the page has no
\* cursor, whatever its items; a call has issued at least one request
C2_CursorAloneStops ==
  \A i \in Invocations : call[i].entry = "withPagination" =>
    /\ Len(fetched[i]) >= 1
    /\ \A k \in 1..Len(received[i]) :
         (IsPage(received[i][k]) /\ Handled(i, k)) =>
           IF HasCursor(received[i][k])
             THEN Len(fetched[i]) > k /\ (pc[i] = "done" => Len(received[i]) > k)
             ELSE Len(fetched[i]) = k /\ pc[i] = "done" /\ outcome[i].kind = "return"

\* an empty page with a cursor was followed by another request
C2_Witness ==
  \E i \in Invocations :
    /\ call[i].entry = "withPagination"
    /\ Len(received[i]) >= 1 /\ IsPage(received[i][1])
    /\ ItemsOf(received[i][1]) = <<>> /\ HasCursor(received[i][1])
    /\ Len(fetched[i]) = 2

(***************************************************************************)
(* C3.  Arguments that do not conform to the schema of the named tool end  *)
(* the invocation with a validation error, and no HTTP request is issued.  *)
(***************************************************************************)
RequiredOfCreate == {"name", "dataWarehouseType", "isRunnableConcurrently"}
ListNonConforming(args) ==
  \/ "connectionType" \notin Keys(args)
  \/ Get(args, "connectionType") \notin {Str(t) : t \in ConnectionTypes}
CreateNonConforming(args) ==
  \/ \E k \in RequiredOfCreate : k \notin Keys(args)
  \/ Get(args, "name") = Str("")
  \/ Get(args, "dataWarehouseType") # Str("bigquery")
  \/ /\ "datamartBigqueryOption" \in Keys(args)
     /\ \/ \E k \in BigqueryOptionKeys : k \notin Keys(Get(args, "datamartBigqueryOption"))
        \/ Get(Get(args, "datamartBigqueryOption"), "writeDisposition")
             \notin {Str("append"), Str("truncate")}
NonConforming(i) ==
  /\ call[i].entry = "CallTool"
  /\ call[i].params.arguments.type = "object"
  /\ \/ IsList(i) /\ ListNonConforming(call[i].params.arguments)
     \/ IsCreate(i) /\ CreateNonConforming(call[i].params.arguments)
\* C3: non-conforming arguments end the invocation at once with a validation
\* error that names an issue; no request is ever issued for it
C3_ValidationBeforeNetwork ==
  \A i \in Invocations : NonConforming(i) =>
    /\ pc[i] = "done"
    /\ reply[i].kind = "throw" /\ reply[i].error = "ZodError"
    /\ reply[i].detail.elems # <<>>
    /\ fetched[i] = <<>> /\ received[i] = <<>>

\* create_datamart_definition was invoked with a data warehouse type outside the enumeration
C3_Witness ==
  \E i \in Invocations :
    /\ NonConforming(i) /\ IsCreate(i) /\ pc[i] = "done"
    /\ Get(call[i].params.arguments, "dataWarehouseType") = Str("snowflake")
    /\ Get(call[i].params.arguments, "name") = Str("dm")
    /\ "isRunnableConcurrently" \in Keys(call[i].params.arguments)

(***************************************************************************)
(* C4.  A tool name that is not known yields an unknown-tool error naming  *)
(* the tool, and no HTTP request.                                          *)
(***************************************************************************)
KnownTools == {"list_connections", "create_datamart_definition"}
UnknownTool(i) == call[i].entry = "CallTool" /\ call[i].params.name \notin KnownTools

\* C4 as claimed: whatever the arguments are, also when they are absent
C4_AnyArguments ==
  \A i \in Invocations : UnknownTool(i) =>
    /\ pc[i] = "done"
    /\ reply[i] = Throw("Unknown tool name", Str(call[i].params.name))
    /\ fetched[i] = <<>>

\* C4 amended: with arguments present the error is the unknown-tool error naming
\* the tool; with the arguments absent it is the missing-arguments error; no
\* HTTP request either way
C4_UnknownTool ==
  \A i \in Invocations : UnknownTool(i) =>
    /\ pc[i] = "done"
    /\ fetched[i] = <<>>
    /\ reply[i] = IF call[i].params.arguments = Undefined
                    THEN Throw("Arguments are required", Undefined)
                    ELSE Throw("Unknown tool name", Str(call[i].params.name))

\* an unknown tool was invoked with arguments that create_datamart_definition accepts
C4_Witness ==
  \E i \in Invocations :
    /\ UnknownTool(i) /\ pc[i] = "done"
    /\ call[i].params.arguments.type = "object"
    /\ ~CreateNonConforming(call[i].params.arguments)

(***************************************************************************)
(* C5.  A non-2xx status on any page of list_connections ends the          *)
(* invocation with an error carrying the status; no request follows and    *)
(* the items collected so far are not returned.                            *)
(***************************************************************************)
\* C5: a non-2xx response is the last response of its invocation, no request
\* follows it, and the invocation ends with the request failure carrying the status
C5_FailureEndsInvocation ==
  \A i \in Invocations : IsList(i) =>
    \A k \in 1..Len(received[i]) : ~Success(received[i][k]) =>
      /\ k = Len(received[i])
      /\ Len(fetched[i]) = k
      /\ pc[i] \in {"resume", "done"}
      /\ pc[i] = "done" =>
           /\ reply[i] = Throw("TROCCO API request failed", Num(received[i][k].status))
           /\ outcome[i] = reply[i]

\* the second page failed after a first page with items
C5_Witness ==
  \E i \in Invocations :
    /\ IsList(i) /\ pc[i] = "done" /\ Len(received[i]) = 2
    /\ IsPage(received[i][1]) /\ ItemsOf(received[i][1]) # <<>>
    /\ ~Success(received[i][2])
    /\ frame[i].items # <<>>

(***************************************************************************)
(* C6.  The body of the POST of create_datamart_definition is a one-to-one *)
(* rename of the input: what the input has is in the body under its remote *)
(* name, what the input lacks is not in the body.                          *)
(***************************************************************************)
RemoteName ==
  [name |-> "name", dataWarehouseType |-> "data_warehouse_type",
   description |-> "description", isRunnableConcurrently |-> "is_runnable_concurrently",
   datamartBigqueryOption |-> "datamart_bigquery_option",
   bigqueryConnectionId |-> "bigquery_connection_id", queryMode |-> "query_mode",
   query |-> "query", destinationDataset |-> "destination_dataset",
   destinationTable |-> "destination_table", writeDisposition |-> "write_disposition"]
\* the object whose members are those of o among `keys`, renamed
Renamed(o, keys) ==
  [r \in {RemoteName[k] : k \in keys \cap Keys(o)} |->
     Get(o, CHOOSE k \in keys \cap Keys(o) : RemoteName[k] = r)]
RenamedInput(args) ==
  LET top == Renamed(args, CreateDatamartDefinitionKeys) IN
  Obj(IF "datamartBigqueryOption" \in Keys(args)
        THEN [top EXCEPT !["datamart_bigquery_option"] =
                Obj(Renamed(Get(args, "datamartBigqueryOption"), BigqueryOptionKeys))]
        ELSE top)
\* C6 as claimed: the body is exactly the renamed input
C6_OneToOneRename ==
  \A i \in Invocations : (IsCreate(i) /\ fetched[i] # <<>>) =>
    /\ Len(fetched[i]) = 1
    /\ fetched[i][1].method = "POST"
    /\ fetched[i][1].body = [type |-> "text", json |-> RenamedInput(call[i].params.arguments)]

\* the part of C6 that holds: the members the input has are in the body, renamed
C6_PresentMembers ==
  \A i \in Invocations : (IsCreate(i) /\ fetched[i] # <<>>) =>
    LET want == RenamedInput(call[i].params.arguments)
        body == fetched[i][1].body.json
    IN /\ \A k \in Keys(want) \ {"datamart_bigquery_option"} :
            k \in Keys(body) /\ Get(body, k) = Get(want, k)
       /\ Keys(body) = Keys(want) \cup {"datamart_bigquery_option"}
       /\ Get(body, "datamart_bigquery_option") =
            IF "datamart_bigquery_option" \in Keys(want)
              THEN Get(want, "datamart_bigquery_option") ELSE Obj(EmptyObject)

(***************************************************************************)
(* C7.  list_connections returns one element per raw record, in order,     *)
(* each with exactly the keys id, name and description and the values of   *)
(* the raw record.                                                         *)
(***************************************************************************)
ConnectionKeys == {"id", "name", "description"}
\* C7: what listConnections returns has one element per raw record, in order,
\* each with exactly the keys id, name, description and the values of the record
C7_Projection ==
  \A i \in Invocations : (IsList(i) /\ pc[i] = "done" /\ outcome[i].kind = "return") =>
    LET raw == Concatenation(received[i])
        out == outcome[i].value.elems
        text == reply[i].value.fields["content"].elems[1].fields["text"].json.elems
    IN /\ AllPages(received[i])
       /\ Len(out) = Len(raw) /\ Len(text) = Len(raw)
       /\ \A n \in 1..Len(raw) :
            /\ Keys(out[n]) = ConnectionKeys
            /\ \A k \in ConnectionKeys :
                 out[n].fields[k] = IF k \in Keys(raw[n]) THEN raw[n].fields[k] ELSE Undefined
            \* the text of the reply: a member the raw record lacks is not written
            /\ Keys(text[n]) = ConnectionKeys \cap Keys(raw[n])
            /\ \A k \in Keys(text[n]) : text[n].fields[k] = raw[n].fields[k]

\* a record with unknown fields came after another record
C7_Witness ==
  \E i \in Invocations :
    /\ IsList(i) /\ pc[i] = "done" /\ outcome[i].kind = "return"
    /\ Len(outcome[i].value.elems) = 2
    /\ Concatenation(received[i])[2] = ExtraConnection
    /\ Concatenation(received[i])[1] # ExtraConnection

C9_BodyWhenSupplied ==
  \A i \in Invocations : call[i].entry = "troccoRequest" =>
    /\ Len(fetched[i]) = 1
    /\ call[i].options.body = Undefined => fetched[i][1].body = Undefined
    /\ call[i].options.body \notin {Undefined, Null} =>
         fetched[i][1].body = [type |-> "text", json |-> ToJSON(call[i].options.body)]

\* the part of C9 that holds: the body is sent exactly when it is truthy
C9_BodyWhenTruthy ==
  \A i \in Invocations : call[i].entry = "troccoRequest" =>
    /\ Len(fetched[i]) = 1
    /\ fetched[i][1].body =
         IF call[i].options.body \in
              {Undefined, Null, Bool(FALSE), Num(0), Str("")} THEN Undefined
         ELSE [type |-> "text", json |-> ToJSON(call[i].options.body)]

(***************************************************************************)
(* C10.  When every request is answered, a list_connections invocation     *)
(* completes once a page comes without a cursor or with a non-2xx status;  *)
(* while every page comes with a cursor it does not complete and goes on   *)
(* issuing requests (here: up to the MaxPages requests of the model).      *)
(***************************************************************************)
Paging(i) == IsList(i) /\ fetched[i] # <<>>
LastPageEnds(i) ==
  /\ received[i] # <<>>
  /\ ~(IsPage(Last(received[i])) /\ HasCursor(Last(received[i])))
EveryPageHasCursor(i) ==
  \A k \in 1..Len(received[i]) : IsPage(received[i][k]) /\ HasCursor(received[i][k])
====
